---- MODULE Spec2Model ----
(***************************************************************************)
(* Model of pr-buddy.py: a linear script that checks its environment,     *)
(* diffs two branches, lets the user pick related issues, asks a          *)
(* generative-AI endpoint for a PR title/description and optionally       *)
(* creates the PR.                                                         *)
(*                                                                         *)
(* Text that the script cuts apart (selected lines, titles, issue number   *)
(* tokens) is modelled as a sequence of one-character strings, so that     *)
(* split / strip / lstrip / int() / f-string formatting are computed the   *)
(* way Python computes them.  Label names and log tags, which the script   *)
(* only compares for equality, are plain strings.                          *)
(***************************************************************************)
EXTENDS Integers, Sequences, FiniteSets, TLC

\* ------------------------------------------------------------------ bounds
\* longest label list of one fetched issue
MaxLabels == 2
\* most lines the fuzzy selector returns
MaxSel == 2

\* ------------------------------------------------------- text primitives
Whitespace == {" ", "\n"}

Digits == <<"0", "1", "2", "3", "4", "5", "6", "7", "8", "9">>

IsDigit(c) == \E i \in 1..Len(Digits) : Digits[i] = c

DigitVal(c) == (CHOOSE i \in 1..Len(Digits) : Digits[i] = c) - 1

\* str.lstrip(chars): drop leading characters that are in chars
LStripSet(s, chars) ==
    IF \A i \in 1..Len(s) : s[i] \in chars THEN <<>>
    ELSE SubSeq(s, CHOOSE i \in 1..Len(s) :
                      s[i] \notin chars /\ \A j \in 1..(i - 1) : s[j] \in chars,
                Len(s))

\* str.rstrip(chars): drop trailing characters that are in chars
RStripSet(s, chars) ==
    IF \A i \in 1..Len(s) : s[i] \in chars THEN <<>>
    ELSE SubSeq(s, 1, CHOOSE i \in 1..Len(s) :
                         s[i] \notin chars /\ \A j \in (i + 1)..Len(s) : s[j] \in chars)

\* str.strip(): whitespace off both ends, inner whitespace kept
Strip(s) == RStripSet(LStripSet(s, Whitespace), Whitespace)

\* "c in s"
Contains(s, c) == \E i \in 1..Len(s) : s[i] = c

\* position of the first c in s (s contains c)
FirstIndex(s, c) == CHOOSE i \in 1..Len(s) : s[i] = c /\ \A j \in 1..(i - 1) : s[j] # c

\* s.split(c, 1) for s containing c: <<text before the first c, text after it>>
SplitOnce(s, c) ==
    LET i == FirstIndex(s, c)
    IN  <<SubSeq(s, 1, i - 1), SubSeq(s, i + 1, Len(s))>>

RECURSIVE DigitsValue(_)
\* value of a non-empty all-digit text
DigitsValue(s) ==
    IF Len(s) = 1 THEN DigitVal(s[1])
    ELSE 10 * DigitsValue(SubSeq(s, 1, Len(s) - 1)) + DigitVal(s[Len(s)])

\* int(s): surrounding whitespace ignored, optional sign, then one or more
\* digits; anything else raises ValueError (ok = FALSE)
ParseInt(s) ==
    LET t == Strip(s)
        signed == t # <<>> /\ Head(t) \in {"+", "-"}
        body == IF signed THEN Tail(t) ELSE t
    IN  IF body # <<>> /\ \A i \in 1..Len(body) : IsDigit(body[i])
        THEN [ok |-> TRUE,
              val |-> IF signed /\ Head(t) = "-" THEN 0 - DigitsValue(body)
                      ELSE DigitsValue(body)]
        ELSE [ok |-> FALSE, val |-> 0]

RECURSIVE Str(_)
\* str(n) of a non-negative integer, as f"{n}" formats it
Str(n) == IF n < 10 THEN <<Digits[n + 1]>> ELSE Str(n \div 10) \o <<Digits[(n % 10) + 1]>>

RECURSIVE JoinLines(_)
\* "\n".join(lines)
JoinLines(ls) ==
    IF ls = <<>> THEN <<>>
    ELSE IF Len(ls) = 1 THEN ls[1]
    ELSE ls[1] \o <<"\n">> \o JoinLines(Tail(ls))

RECURSIVE SplitLines(_)
\* str.splitlines(): cut at each "\n", no empty last line after a final "\n"
SplitLines(s) ==
    IF s = <<>> THEN <<>>
    ELSE IF Contains(s, "\n")
         THEN <<SplitOnce(s, "\n")[1]>> \o SplitLines(SplitOnce(s, "\n")[2])
         ELSE <<s>>

RECURSIVE SeqsUpTo(_, _)
\* all sequences over S of length at most n
SeqsUpTo(S, n) ==
    IF n = 0 THEN {<<>>}
    ELSE LET shorter == SeqsUpTo(S, n - 1)
         IN  shorter \cup {Append(q, x) : q \in shorter, x \in S}

\* ------------------------------------------------------------ input data
REQUIRED_CMDS == <<"git", "curl", "jq", "fzf">>

\* executables the environment may or may not have
Executables == {"git", "curl", "jq", "fzf", "gh"}

LabelNames == {"bug", "urgent"}

\* a label as the tracker returns it: an object with a name, or plain text
DictLabels == [isDict : {TRUE}, name : LabelNames]
TextLabels == [isDict : {FALSE}, text : LabelNames]

FixCrash == <<"F", "i", "x", " ", "c", "r", "a", "s", "h">>
PipeTitle == <<"a", "|", "b">>

\* issue 1 "Fix crash" (labels as objects) and issue 12 "a|b" (labels as text)
Issue1(ls) == [number |-> 1, title |-> FixCrash, labels |-> ls]
Issue12(ls) == [number |-> 12, title |-> PipeTitle, labels |-> ls]

\* the issue lists a fetch may return
IssueLists ==
    {<<>>}
    \cup {<<Issue1(a)>> : a \in SeqsUpTo(DictLabels, MaxLabels)}
    \cup {<<Issue1(a), Issue12(b)>> :
             a \in SeqsUpTo(DictLabels, MaxLabels), b \in SeqsUpTo(TextLabels, MaxLabels)}

\* the issue lists of the end-to-end runs: the spec's scenarios A and D
ScenarioIssueLists ==
    { <<>>,
      <<Issue1(<<[isDict |-> TRUE, name |-> "bug"]>>)>>,
      <<Issue1(<<[isDict |-> TRUE, name |-> "bug"]>>),
        Issue12(<<[isDict |-> FALSE, text |-> "bug"], [isDict |-> FALSE, text |-> "urgent"]>>)>> }

\* f"#{issue['number']} | {issue['title']}"
DisplayLine(issue) == <<"#">> \o Str(issue.number) \o <<" ", "|", " ">> \o issue.title

\* lines a selector could hand back that are not displayed lines: no delimiter;
\* a number token that is no integer; no title; and a number (doubled "#",
\* zero-padded, no blanks around the delimiter) that no fetched issue has
NoDelimLine == <<"#", "1", " ", "F", "i", "x">>
NonIntLine == <<"#", "x", " ", "|", " ", "F", "i", "x">>
EmptyTitleLine == <<"#", "1", " ", "|", " ">>
UnknownLine == <<"#", "#", "0", "7", "|", "c">>
BlankLine == <<" ">>

MalformedLines == {NoDelimLine, NonIntLine, EmptyTitleLine, UnknownLine}

\* the non-blank lines the selection loop may be given for a fetched list
CandidateLines(issues) == {DisplayLine(issues[i]) : i \in 1..Len(issues)} \cup MalformedLines

\* line 181: issues_list
IssuesListText(issues) == JoinLines([i \in 1..Len(issues) |-> DisplayLine(issues[i])])

\* what the selector process may write to stdout: its chosen lines, one per line
FzfStdouts(issues) ==
    {JoinLines(ls) \o (IF ls = <<>> THEN <<>> ELSE <<"\n">>) : ls \in SeqsUpTo({DisplayLine(issues[i]) : i \in 1..Len(issues)}
                                      \cup {NoDelimLine, NonIntLine, BlankLine}, MaxSel)}

\* what the user may type at the branch prompts ("" takes the default)
BranchInputs == {"", "dev"}

\* what the user may type at a yes/no prompt; YesNoAnswer is .strip().lower() of it
YesNoInputs == {"", "n", " No "}

\* .strip().lower() of a typed yes/no answer
StripLower(a) ==
    CASE a = " No " -> "no"
      [] OTHER -> a

\* stdout of "git diff origin/to...from" before run() strips it
DiffOutputs == {<<>>, <<"\n">>, <<"+", "x", "\n">>}

\* HTTP responses of the generative endpoint: status, and how far the body parses
\*   json    : the body is JSON (resp.json() returns)
\*   hasText : data["candidates"][0]["content"]["parts"][0]["text"] exists
\*   text    : "garbage" (not JSON), "array" (JSON, not an object), "object"
\*   keys    : the keys of the object
Responses ==
    { [ok |-> FALSE, json |-> TRUE, hasText |-> FALSE, text |-> "none", keys |-> {}],
      [ok |-> TRUE, json |-> FALSE, hasText |-> FALSE, text |-> "none", keys |-> {}],
      [ok |-> TRUE, json |-> TRUE, hasText |-> FALSE, text |-> "none", keys |-> {}],
      [ok |-> TRUE, json |-> TRUE, hasText |-> TRUE, text |-> "garbage", keys |-> {}],
      [ok |-> TRUE, json |-> TRUE, hasText |-> TRUE, text |-> "array", keys |-> {}],
      [ok |-> TRUE, json |-> TRUE, hasText |-> TRUE, text |-> "object", keys |-> {}],
      [ok |-> TRUE, json |-> TRUE, hasText |-> TRUE, text |-> "object",
       keys |-> {"title", "description"}] }

NoResponse == [ok |-> FALSE, json |-> FALSE, hasText |-> FALSE, text |-> "none", keys |-> {}]

\* fzf_proc before the selector has run
NotRun == [ran |-> FALSE, returncode |-> 0, stdout |-> <<>>]

\* full_prompt_text before it is assembled
NoPrompt == [prompt |-> "", issues |-> <<>>, diff |-> <<>>]

\* ------------------------------------------------------------------ state
VARIABLES
    pc,             \* position in the script
    api_key,        \* GEMINI_API_KEY is set
    installed,      \* executables found by shutil.which
    in_repo,        \* the working directory is inside a Git work tree
    cmd_i,          \* index of the pre-flight loop over REQUIRED_CMDS
    from_branch, to_branch,
    diff_output,
    user_prompt,
    issues_json,
    fzf_proc,       \* the selector's returncode and stdout
    selected_lines,
    line_i,         \* number of selected lines the loop has taken
    pending,        \* labels of the current issue not yet visited
    solved_issues, pr_labels, label_seen,
    full_prompt_text,
    resp,
    pr_title, pr_body,
    ans,            \* the normalised answer confirm() decided on
    assignee,
    gh_pr_args,
    stdout,         \* tags of the notices printed, in order
    stderr,         \* what was written to the error stream
    calls,          \* external commands and HTTP requests issued, in order
    exit_code       \* -1 while running

vars == <<pc, api_key, installed, in_repo, cmd_i, from_branch, to_branch, diff_output,
          user_prompt, issues_json, fzf_proc, selected_lines, line_i, pending,
          solved_issues, pr_labels, label_seen, full_prompt_text, resp, pr_title, pr_body, ans, assignee,
          gh_pr_args, stdout, stderr, calls, exit_code>>

env == <<api_key, installed, in_repo>>
branches == <<from_branch, to_branch>>
selection == <<fzf_proc, selected_lines, line_i, pending, solved_issues, pr_labels, label_seen>>
suggestion == <<full_prompt_text, resp, pr_title, pr_body>>
creation == <<ans, assignee, gh_pr_args>>

\* a message of error(): the marked line, with or without the raw response in it
Marked(what, raw) == [marked |-> TRUE, what |-> what, raw |-> raw]

\* the interpreter's report of an exception nothing caught
Traceback(what) == [marked |-> FALSE, what |-> what, raw |-> FALSE]

\* a variant of error() that prints and returns instead of exiting
errorReturns(msg) ==
    /\ stderr' = Append(stderr, msg)
    /\ UNCHANGED <<pc, exit_code>>

\* a variant of error() that exits with status 0
errorExitsZero(msg) ==
    /\ stderr' = Append(stderr, msg)
    /\ exit_code' = 0
    /\ pc' = "exited"

\* error(msg): print the marked message to stderr, sys.exit(1)
error(msg) ==
    /\ stderr' = Append(stderr, msg)
    /\ exit_code' = 1
    /\ pc' = "exited"

\* an exception that propagates to the top level: traceback on stderr, status 1
Uncaught(what) ==
    /\ stderr' = Append(stderr, Traceback(what))
    /\ exit_code' = 1
    /\ pc' = "exited"

Init ==
    /\ pc = "start"
    /\ api_key \in BOOLEAN
    /\ installed \in SUBSET Executables
    /\ in_repo \in BOOLEAN
    /\ cmd_i = 1
    /\ from_branch = ""
    /\ to_branch = ""
    /\ diff_output = <<>>
    /\ user_prompt = ""
    /\ issues_json = <<>>
    /\ fzf_proc = NotRun
    /\ selected_lines = <<>>
    /\ line_i = 0
    /\ pending = <<>>
    /\ solved_issues = <<>>
    /\ pr_labels = <<>>
    /\ label_seen = {}
    /\ full_prompt_text = NoPrompt
    /\ resp = NoResponse
    /\ pr_title = ""
    /\ pr_body = ""
    /\ ans = ""
    /\ assignee = ""
    /\ gh_pr_args = <<>>
    /\ stdout = <<>>
    /\ stderr = <<>>
    /\ calls = <<>>
    /\ exit_code = -1

\* ------------------------------------------------------- pre-flight checks
\* lines 45-47
CheckApiKey ==
    /\ pc = "start"
    /\ IF ~api_key
       THEN error(Marked("no_api_key", FALSE))
       ELSE /\ pc' = "check_cmds"
            /\ UNCHANGED <<stderr, exit_code>>
    /\ UNCHANGED <<env, cmd_i, branches, diff_output, user_prompt, issues_json, selection,
                   suggestion, creation, stdout, calls>>

\* lines 49-51: one turn of the loop, or leaving it
CheckCmd ==
    /\ pc = "check_cmds"
    /\ IF cmd_i > Len(REQUIRED_CMDS)
       THEN /\ pc' = "check_repo"
            /\ UNCHANGED <<cmd_i, stderr, exit_code>>
       ELSE IF REQUIRED_CMDS[cmd_i] \notin installed
            THEN /\ error(Marked("missing_cmd", FALSE))
                 /\ UNCHANGED cmd_i
            ELSE /\ cmd_i' = cmd_i + 1
                 /\ UNCHANGED <<pc, stderr, exit_code>>
    /\ UNCHANGED <<env, branches, diff_output, user_prompt, issues_json, selection,
                   suggestion, creation, stdout, calls>>

\* lines 53-58
CheckRepo ==
    /\ pc = "check_repo"
    /\ calls' = Append(calls, "git_rev_parse")
    /\ IF ~in_repo
       THEN /\ error(Marked("not_a_repo", FALSE))
            /\ UNCHANGED stdout
       ELSE /\ stdout' = Append(stdout, "preflight_ok")
            /\ pc' = "branches"
            /\ UNCHANGED <<stderr, exit_code>>
    /\ UNCHANGED <<env, cmd_i, branches, diff_output, user_prompt, issues_json, selection,
                   suggestion, creation>>

\* ---------------------------------------------------------- steps 1 and 2
\* lines 62-68: input(...).strip() or the default
ChooseBranches ==
    /\ pc = "branches"
    /\ \E f \in BranchInputs, t \in BranchInputs :
          /\ from_branch' = (IF f = "" THEN "current" ELSE f)
          /\ to_branch' = (IF t = "" THEN "default" ELSE t)
    /\ calls' = calls \o <<"git_current_branch", "git_remote_show">>
    /\ stdout' = Append(stdout, "comparing")
    /\ pc' = "diff"
    /\ UNCHANGED <<env, cmd_i, diff_output, user_prompt, issues_json, selection, suggestion,
                   creation, stderr, exit_code>>

\* a variant that never takes the early exit
NoDifferencesIgnored(d) == FALSE

\* line 76: "if not diff_output"
NoDifferences(d) == d = <<>>

\* lines 72-80: fetch, diff, and the early exit on an empty diff
GetDiff ==
    /\ pc = "diff"
    /\ \E fetched \in BOOLEAN, out \in DiffOutputs :
          IF ~fetched
          THEN /\ calls' = Append(calls, "git_fetch")
               /\ stdout' = Append(stdout, "fetching")
               /\ Uncaught("CalledProcessError")
               /\ UNCHANGED diff_output
          ELSE /\ calls' = calls \o <<"git_fetch", "git_diff">>
               /\ diff_output' = Strip(out)
               /\ IF NoDifferences(Strip(out))
                  THEN /\ stdout' = stdout \o <<"fetching", "no_diff">>
                       /\ exit_code' = 0
                       /\ pc' = "exited"
                       /\ UNCHANGED stderr
                  ELSE /\ stdout' = stdout \o <<"fetching", "found_diff">>
                       /\ pc' = "prompt"
                       /\ UNCHANGED <<stderr, exit_code>>
    /\ UNCHANGED <<env, cmd_i, branches, user_prompt, issues_json, selection, suggestion,
                   creation>>

\* lines 154-155
ChoosePrompt ==
    /\ pc = "prompt"
    /\ \E a \in YesNoInputs :
          user_prompt' = (IF StripLower(a) \notin {"n", "no"} THEN "experimental" ELSE "default")
    /\ pc' = "issues"
    /\ UNCHANGED <<env, cmd_i, branches, diff_output, issues_json, selection, suggestion,
                   creation, stdout, stderr, calls, exit_code>>

\* ---------------------------------------------------- step 3.1: the issues
\* lines 159-181: gh when installed, else the unauthenticated REST call
FetchIssues ==
    /\ pc = "issues"
    /\ stdout' = Append(stdout, "fetching_issues")
    /\ IF "gh" \in installed
       THEN /\ calls' = calls \o <<"git_config_url", "gh_issue_list">>
            /\ \E outcome \in {"failed", "empty", "not_json", "json"} :
                  CASE outcome = "failed" ->
                         /\ Uncaught("CalledProcessError")
                         /\ UNCHANGED issues_json
                    [] outcome = "empty" ->
                         /\ issues_json' = <<>>
                         /\ pc' = "select"
                         /\ UNCHANGED <<stderr, exit_code>>
                    [] outcome = "not_json" ->
                         /\ error(Marked("issue_parse", FALSE))
                         /\ UNCHANGED issues_json
                    [] OTHER ->
                         /\ issues_json' \in ScenarioIssueLists
                         /\ pc' = "select"
                         /\ UNCHANGED <<stderr, exit_code>>
       ELSE /\ calls' = calls \o <<"git_config_url", "rest_issues">>
            /\ \E ok \in BOOLEAN :
                  /\ IF ok THEN issues_json' \in ScenarioIssueLists ELSE issues_json' = <<>>
                  /\ pc' = "select"
                  /\ UNCHANGED <<stderr, exit_code>>
    /\ UNCHANGED <<env, cmd_i, branches, diff_output, user_prompt, selection, suggestion,
                   creation>>

\* a variant that keeps the output whatever the selector's exit status
KeptLinesAnyStatus(proc) ==
    IF proc.stdout # <<>>
    THEN SelectSeq(SplitLines(proc.stdout), LAMBDA l : Strip(l) # <<>>)
    ELSE <<>>

\* line 200: the lines kept from the selector's output
KeptLines(proc) ==
    IF proc.returncode = 0 /\ proc.stdout # <<>>
    THEN SelectSeq(SplitLines(proc.stdout), LAMBDA l : Strip(l) # <<>>)
    ELSE <<>>

\* lines 183-200: reset the accumulators, run the selector unless the list is empty
SelectIssues ==
    /\ pc = "select"
    /\ solved_issues' = <<>>
    /\ pr_labels' = <<>>
    /\ label_seen' = {}
    /\ line_i' = 0
    /\ pending' = <<>>
    /\ IF Strip(IssuesListText(issues_json)) = <<>>
       THEN /\ stdout' = Append(stdout, "no_issues")
            /\ pc' = "send"
            /\ UNCHANGED <<fzf_proc, selected_lines, calls>>
       ELSE /\ stdout' = Append(stdout, "select_prompt")
            /\ calls' = Append(calls, "fzf")
            /\ \E proc \in
                   {[ran |-> TRUE, returncode |-> 0, stdout |-> out] :
                       out \in FzfStdouts(issues_json)}
                   \cup {[ran |-> TRUE, returncode |-> rc, stdout |-> out] :
                       rc \in {1, 130}, out \in {<<>>, DisplayLine(issues_json[1]) \o <<"\n">>}} :
                  /\ fzf_proc' = proc
                  /\ selected_lines' = KeptLines(proc)
            /\ pc' = "loop"
    /\ UNCHANGED <<env, cmd_i, branches, diff_output, user_prompt, issues_json, suggestion,
                   creation, stderr, exit_code>>

\* position of the last c in s (s contains c)
LastIndex(s, c) == CHOOSE i \in 1..Len(s) : s[i] = c /\ \A j \in (i + 1)..Len(s) : s[j] # c

\* a variant that cuts the line at its last "|", as rsplit would
ParseLineAtLastBar(line) ==
    LET i == LastIndex(line, "|")
    IN  [issue_number |-> LStripSet(Strip(SubSeq(line, 1, i - 1)), {"#"}),
         issue_title |-> Strip(SubSeq(line, i + 1, Len(line)))]

\* lines 204-206: num_part, title_part = line.split("|", 1), then the two tokens
ParseLine(line) ==
    LET parts == SplitOnce(line, "|")
    IN  [issue_number |-> LStripSet(Strip(parts[1]), {"#"}),
         issue_title |-> Strip(parts[2])]

\* lines 203, 207: the line has the delimiter and both tokens are non-empty
Accepted(line) ==
    /\ Contains(line, "|")
    /\ LET parsed == ParseLine(line)
       IN  parsed.issue_number # <<>> /\ parsed.issue_title # <<>>

\* line 208: f"- {issue_title} #{issue_number}"
Reference(line) ==
    LET parsed == ParseLine(line)
    IN  <<"-", " ">> \o parsed.issue_title \o <<" ", "#">> \o parsed.issue_number

\* a variant that takes a line without the delimiter as a bare title
WithReferenceUndelimited(solved, line) ==
    IF Accepted(line) THEN Append(solved, Reference(line))
    ELSE IF ~Contains(line, "|") THEN Append(solved, <<"-", " ">> \o Strip(line))
    ELSE solved

\* lines 203-208: the reference list after the line
WithReference(solved, line) ==
    IF Accepted(line) THEN Append(solved, Reference(line)) ELSE solved

\* line 215: position of the first fetched issue with that number, 0 when none
FindIssue(issues, n) ==
    IF \E i \in 1..Len(issues) : issues[i].number = n
    THEN CHOOSE i \in 1..Len(issues) :
            issues[i].number = n /\ \A j \in 1..(i - 1) : issues[j].number # n
    ELSE 0

\* lines 210-219: the labels the inner loop will visit for the line
LabelsToVisit(issues, line) ==
    IF ~Accepted(line) THEN <<>>
    ELSE LET n == ParseInt(ParseLine(line).issue_number)
             at == FindIssue(issues, n.val)
         IN  IF ~n.ok THEN <<>>
             ELSE IF at = 0 THEN <<>>
             ELSE issues[at].labels

\* line 220: label.get("name") if isinstance(label, dict) else label
LabelName(label) == IF label.isDict THEN label.name ELSE label.text

\* a variant without the "not in label_seen" test
AddLabelNameUnseenUnchecked(acc, label) ==
    IF LabelName(label) # ""
    THEN <<Append(acc[1], LabelName(label)), acc[2] \cup {LabelName(label)}>>
    ELSE acc

\* lines 221-223 on the pair <<pr_labels, label_seen>>
AddLabelName(acc, label) ==
    IF LabelName(label) # "" /\ LabelName(label) \notin acc[2]
    THEN <<Append(acc[1], LabelName(label)), acc[2] \cup {LabelName(label)}>>
    ELSE acc

RECURSIVE VisitLabels(_, _)
\* lines 219-223: the whole inner loop over one issue's labels
VisitLabels(acc, labels) ==
    IF labels = <<>> THEN acc ELSE VisitLabels(AddLabelName(acc, Head(labels)), Tail(labels))

RECURSIVE SelectionLoop(_, _)
\* lines 202-223 as a function of the fetched issues and the kept lines:
\* <<solved_issues, pr_labels, label_seen>> when the loop is done
SelectionLoop(issues, lines) ==
    IF lines = <<>> THEN <<<<>>, <<>>, {}>>
    ELSE LET before == SelectionLoop(issues, SubSeq(lines, 1, Len(lines) - 1))
             line == lines[Len(lines)]
             labelled == VisitLabels(<<before[2], before[3]>>, LabelsToVisit(issues, line))
         IN  <<WithReference(before[1], line), labelled[1], labelled[2]>>

\* line 202 onwards: take the next selected line, or leave the loop
NextLine ==
    /\ pc = "loop"
    /\ pending = <<>>
    /\ line_i < Len(selected_lines)
    /\ line_i' = line_i + 1
    /\ solved_issues' = WithReference(solved_issues, selected_lines[line_i + 1])
    /\ pending' = LabelsToVisit(issues_json, selected_lines[line_i + 1])
    /\ UNCHANGED <<pc, env, cmd_i, branches, diff_output, user_prompt, issues_json, fzf_proc,
                   selected_lines, pr_labels, label_seen, suggestion, creation, stdout,
                   stderr, calls, exit_code>>

\* lines 219-223: one turn of the inner loop
VisitLabel ==
    /\ pc = "loop"
    /\ pending # <<>>
    /\ pr_labels' = AddLabelName(<<pr_labels, label_seen>>, Head(pending))[1]
    /\ label_seen' = AddLabelName(<<pr_labels, label_seen>>, Head(pending))[2]
    /\ pending' = Tail(pending)
    /\ UNCHANGED <<pc, env, cmd_i, branches, diff_output, user_prompt, issues_json, fzf_proc,
                   selected_lines, line_i, solved_issues, suggestion, creation, stdout,
                   stderr, calls, exit_code>>

\* the for loop of line 202 is exhausted
EndLoop ==
    /\ pc = "loop"
    /\ pending = <<>>
    /\ line_i = Len(selected_lines)
    /\ pc' = "send"
    /\ UNCHANGED <<env, cmd_i, branches, diff_output, user_prompt, issues_json, selection,
                   suggestion, creation, stdout, stderr, calls, exit_code>>

\* ------------------------------------------------- step 4: the AI request
\* lines 227-248: assemble the prompt, POST it, stop on a non-success status
SendPrompt ==
    /\ pc = "send"
    /\ stdout' = Append(stdout, "sending")
    /\ full_prompt_text' =
          [prompt |-> user_prompt, issues |-> JoinLines(solved_issues), diff |-> diff_output]
    /\ calls' = Append(calls, "post")
    /\ \E connected \in BOOLEAN :
          IF ~connected
          THEN /\ Uncaught("ConnectionError")
               /\ UNCHANGED resp
          ELSE \E r \in Responses :
                  /\ resp' = r
                  /\ IF ~r.ok
                     THEN error(Marked("api_error", TRUE))
                     ELSE /\ pc' = "parse"
                          /\ UNCHANGED <<stderr, exit_code>>
    /\ UNCHANGED <<env, cmd_i, branches, diff_output, user_prompt, issues_json, selection,
                   pr_title, pr_body, creation>>

\* lines 250-258: resp.json() outside the try, the two lookups inside it,
\* parsed.get() after it
ParseResponse ==
    /\ pc = "parse"
    /\ IF ~resp.json
       THEN /\ Uncaught("JSONDecodeError")
            /\ UNCHANGED <<pr_title, pr_body>>
       ELSE IF ~resp.hasText \/ resp.text = "garbage"
       THEN /\ error(Marked("gemini_not_json", TRUE))
            /\ UNCHANGED <<pr_title, pr_body>>
       ELSE IF resp.text # "object"
       THEN /\ Uncaught("AttributeError")
            /\ UNCHANGED <<pr_title, pr_body>>
       ELSE /\ pr_title' = (IF "title" \in resp.keys THEN "generated title" ELSE "")
            /\ pr_body' = (IF "description" \in resp.keys THEN "generated body" ELSE "")
            /\ pc' = "display"
            /\ UNCHANGED <<stderr, exit_code>>
    /\ UNCHANGED <<env, cmd_i, branches, diff_output, user_prompt, issues_json, selection,
                   full_prompt_text, resp, creation, stdout, calls>>

\* lines 260-265
Display ==
    /\ pc = "display"
    /\ stdout' = Append(stdout, "suggested_pr")
    /\ pc' = "confirm"
    /\ UNCHANGED <<env, cmd_i, branches, diff_output, user_prompt, issues_json, selection,
                   suggestion, creation, stderr, calls, exit_code>>

\* ------------------------------------------------ step 6: the optional PR
\* lines 37-41: the answer confirm() tests, after strip, lower and the default
confirm(typed) == IF StripLower(typed) = "" THEN "y" ELSE StripLower(typed)

\* lines 269-273: ask, require gh, look the assignee up
ConfirmCreate ==
    /\ pc = "confirm"
    /\ \E typed \in YesNoInputs :
          /\ ans' = confirm(typed)
          /\ IF confirm(typed) \in {"n", "no"}
             THEN /\ pc' = "finish"
                  /\ UNCHANGED <<assignee, stdout, stderr, calls, exit_code>>
             ELSE IF "gh" \notin installed
             THEN /\ error(Marked("no_gh", FALSE))
                  /\ UNCHANGED <<assignee, stdout, calls>>
             ELSE /\ stdout' = Append(stdout, "creating_pr")
                  /\ calls' = Append(calls, "gh_api_user")
                  /\ \E found \in BOOLEAN :
                        IF found
                        THEN /\ assignee' = "login"
                             /\ pc' = "create"
                             /\ UNCHANGED <<stderr, exit_code>>
                        ELSE /\ Uncaught("CalledProcessError")
                             /\ UNCHANGED assignee
    /\ UNCHANGED <<env, cmd_i, branches, diff_output, user_prompt, issues_json, selection,
                   suggestion, gh_pr_args>>

\* a variant that passes all labels in one --label argument pair, first label only
LabelArgsFirstOnly(labels) ==
    IF labels = <<>> THEN <<>> ELSE <<"--label", Head(labels)>>

RECURSIVE LabelArgs(_)
\* lines 293-294: gh_pr_args.extend(["--label", label]) for each label
LabelArgs(labels) ==
    IF labels = <<>> THEN <<>> ELSE <<"--label", Head(labels)>> \o LabelArgs(Tail(labels))

\* lines 275-294: the argument list of the PR-create invocation
PrArgs(base, head, title, body, who, labels) ==
    <<"gh", "pr", "create", "--base", base, "--head", head, "--title", title,
      "--body", body, "--assignee", who>> \o LabelArgs(labels)

\* lines 275-296: build the arguments and run gh pr create
CreatePR ==
    /\ pc = "create"
    /\ gh_pr_args' = PrArgs(to_branch, from_branch, pr_title, pr_body, assignee, pr_labels)
    /\ stdout' = (IF pr_labels # <<>> THEN Append(stdout, "applying_labels") ELSE stdout)
    /\ calls' = Append(calls, "gh_pr_create")
    /\ \E created \in BOOLEAN :
          IF created
          THEN /\ pc' = "finish"
               /\ UNCHANGED <<stderr, exit_code>>
          ELSE Uncaught("CalledProcessError")
    /\ UNCHANGED <<env, cmd_i, branches, diff_output, user_prompt, issues_json, selection,
                   suggestion, ans, assignee>>

\* line 298, then the interpreter ends with status 0
Finish ==
    /\ pc = "finish"
    /\ stdout' = Append(stdout, "done")
    /\ exit_code' = 0
    /\ pc' = "exited"
    /\ UNCHANGED <<env, cmd_i, branches, diff_output, user_prompt, issues_json, selection,
                   suggestion, creation, stderr, calls>>

\* ---------------------------------------------------------- specifications
Next ==
    \/ CheckApiKey
    \/ CheckCmd
    \/ CheckRepo
    \/ ChooseBranches
    \/ GetDiff
    \/ ChoosePrompt
    \/ FetchIssues
    \/ SelectIssues
    \/ NextLine
    \/ VisitLabel
    \/ EndLoop
    \/ SendPrompt
    \/ ParseResponse
    \/ Display
    \/ ConfirmCreate
    \/ CreatePR
    \/ Finish

\* one run of the script, from its first line
Spec == Init /\ [][Next]_vars

\* every step but the taking of a selected line
OtherSteps ==
    \/ CheckApiKey \/ CheckCmd \/ CheckRepo \/ ChooseBranches \/ GetDiff \/ ChoosePrompt
    \/ FetchIssues \/ SelectIssues \/ VisitLabel \/ EndLoop \/ SendPrompt \/ ParseResponse
    \/ Display \/ ConfirmCreate \/ CreatePR \/ Finish

\* NextLine can be taken: its guard, which has no other precondition
CanTakeLine == pc = "loop" /\ pending = <<>> /\ line_i < Len(selected_lines)

\* the script is sequential and every command and prompt it waits for returns:
\* whatever statement is next is eventually executed.  The second conjunct is
\* weak fairness of NextLine with its enabling condition written out.
FairSpec ==
    /\ Spec
    /\ WF_vars(OtherSteps)
    /\ ([]<>(~CanTakeLine) \/ []<><<NextLine>>_vars)

\* the script as it enters the selection loop (line 202) with any fetched issue
\* list and any kept lines, everything before having succeeded
InitLoop ==
    /\ pc = "loop"
    /\ api_key = TRUE
    /\ installed = Executables
    /\ in_repo = TRUE
    /\ cmd_i = Len(REQUIRED_CMDS) + 1
    /\ from_branch = "current"
    /\ to_branch = "default"
    /\ diff_output = <<"+", "x">>
    /\ user_prompt = "experimental"
    /\ issues_json \in IssueLists \ {<<>>}
    /\ selected_lines \in SeqsUpTo(CandidateLines(issues_json), MaxSel)
    /\ fzf_proc = [ran |-> TRUE, returncode |-> 0,
                   stdout |-> JoinLines(selected_lines)
                              \o (IF selected_lines = <<>> THEN <<>> ELSE <<"\n">>)]
    /\ line_i = 0
    /\ pending = <<>>
    /\ solved_issues = <<>>
    /\ pr_labels = <<>>
    /\ label_seen = {}
    /\ full_prompt_text = NoPrompt
    /\ resp = NoResponse
    /\ pr_title = ""
    /\ pr_body = ""
    /\ ans = ""
    /\ assignee = ""
    /\ gh_pr_args = <<>>
    /\ stdout = <<"preflight_ok", "comparing", "fetching", "found_diff", "fetching_issues",
                  "select_prompt">>
    /\ stderr = <<>>
    /\ calls = <<"git_rev_parse", "git_current_branch", "git_remote_show", "git_fetch",
                 "git_diff", "git_config_url", "gh_issue_list", "fzf">>
    /\ exit_code = -1

NextLoop ==
    \/ NextLine
    \/ VisitLabel
    \/ EndLoop

\* the selection loop alone, over every bounded issue list and selection
LoopSpec == InitLoop /\ [][NextLoop]_vars

\* ------------------------------------------------------------ properties
Range(q) == {q[i] : i \in 1..Len(q)}

\* the lines the loop has taken so far
TakenLines == SubSeq(selected_lines, 1, line_i)

RECURSIVE NamesMet(_, _)
\* the label names the inner loop is given for the lines, in order
NamesMet(issues, lines) ==
    IF lines = <<>> THEN <<>>
    ELSE LET ls == LabelsToVisit(issues, lines[Len(lines)])
         IN  NamesMet(issues, SubSeq(lines, 1, Len(lines) - 1))
             \o [i \in 1..Len(ls) |-> LabelName(ls[i])]

\* the label names visited so far: those met, less the ones still pending
NamesVisited ==
    LET met == NamesMet(issues_json, TakenLines)
    IN  IF pending = <<>> THEN met ELSE SubSeq(met, 1, Len(met) - Len(pending))

\* position of the first occurrence of x in q
FirstAt(q, x) == CHOOSE i \in 1..Len(q) : q[i] = x /\ \A j \in 1..(i - 1) : q[j] # x

\* C1: at every point of the selection loop the PR label list holds each label
\* name visited so far exactly once, in the order the names were first met.
C1_LabelsUniqueFirstSeen ==
    pc = "loop" \/ pc = "send" =>
       LET visited == NamesVisited
       IN  /\ \A i, j \in 1..Len(pr_labels) : i # j => pr_labels[i] # pr_labels[j]
           /\ Range(pr_labels) = Range(visited)
           /\ \A i, j \in 1..Len(pr_labels) :
                 i < j => FirstAt(visited, pr_labels[i]) < FirstAt(visited, pr_labels[j])

\* scenario D: two chosen issues both tagged "bug", one also "urgent"
C1_Witness ==
    /\ pc = "send"
    /\ line_i = 2
    /\ NamesVisited = <<"bug", "bug", "urgent">>
    /\ pr_labels = <<"bug", "urgent">>

\* the line has the delimiter but its number token is not an integer
NonIntegerLine(line) ==
    /\ Contains(line, "|")
    /\ ~ParseInt(ParseLine(line).issue_number).ok

\* C4: a taken line whose number token is not an integer has left no entry in
\* the reference list and no label to visit, and the run has not been aborted.
C4_NonIntegerContributesNothing ==
    \A k \in 1..line_i :
       NonIntegerLine(selected_lines[k]) =>
          /\ \A j \in 1..Len(solved_issues) :
                solved_issues[j] #
                   <<"-", " ">> \o ParseLine(selected_lines[k]).issue_title
                   \o <<" ", "#">> \o ParseLine(selected_lines[k]).issue_number
          /\ (k = line_i => pending = <<>>)
          /\ exit_code = -1

\* C5: when the loop is done, the reference list and the label list are those
\* the loop produces from the same lines with every "|"-less line removed, and
\* the run has not been aborted.
C5_UndelimitedLinesDropped ==
    pc = "send" =>
       LET delimited == SelectSeq(selected_lines, LAMBDA l : Contains(l, "|"))
           result == SelectionLoop(issues_json, delimited)
       IN  /\ solved_issues = result[1]
           /\ pr_labels = result[2]
           /\ exit_code = -1

\* a "|"-less line was among the kept lines and another line left a reference
C5_Witness ==
    /\ pc = "send"
    /\ \E k \in 1..Len(selected_lines) : ~Contains(selected_lines[k], "|")
    /\ solved_issues # <<>>
    /\ pr_labels # <<>>

\* the fetched issues whose displayed line is the given line
ShownAs(line) == {i \in 1..Len(issues_json) : DisplayLine(issues_json[i]) = line}

\* the fetched issue whose displayed line is the k-th kept line
Chosen(k) == issues_json[CHOOSE i \in ShownAs(selected_lines[k]) : TRUE]

\* C6: whenever every line taken so far is the displayed line of a fetched issue
\* and no label is pending, the reference list is "- title #N" of the chosen
\* issues in selection order, and the label list holds, as a set, exactly the
\* label names of the chosen issues.
C6_DisplayedLinesAggregate ==
    ( /\ pc = "loop" \/ pc = "send"
      /\ pending = <<>>
      /\ \A k \in 1..line_i : ShownAs(selected_lines[k]) # {} ) =>
       /\ solved_issues =
             [k \in 1..line_i |->
                 <<"-", " ">> \o Chosen(k).title \o <<" ", "#">> \o Str(Chosen(k).number)]
       /\ Range(pr_labels) =
             UNION {{LabelName(Chosen(k).labels[m]) : m \in 1..Len(Chosen(k).labels)} :
                       k \in 1..line_i}

\* scenario A: issue 1 "Fix crash" labelled "bug", its line chosen
C6_Witness ==
    /\ pc = "send"
    /\ issues_json = <<Issue1(<<[isDict |-> TRUE, name |-> "bug"]>>)>>
    /\ selected_lines = <<DisplayLine(issues_json[1])>>
    /\ solved_issues = << <<"-", " ", "F", "i", "x", " ", "c", "r", "a", "s", "h", " ", "#", "1">> >>
    /\ pr_labels = <<"bug">>

\* how often x occurs in q
Count(q, x) == Cardinality({i \in 1..Len(q) : q[i] = x})

\* the steps that follow the diff: issue fetch, selection, AI request, PR creation
LaterCalls == {"git_config_url", "gh_issue_list", "rest_issues", "fzf", "post",
               "gh_api_user", "gh_pr_create"}

\* C2: once the diff has been taken and is empty, the run has printed the "no
\* differences" notice last, has exited with status 0, and has issued no issue
\* fetch, no selection, no POST and no PR-create invocation.
C2_EmptyDiffExitsZero ==
    ("git_diff" \in Range(calls) /\ diff_output = <<>>) =>
       /\ pc = "exited"
       /\ exit_code = 0
       /\ stdout[Len(stdout)] = "no_diff"
       /\ stderr = <<>>
       /\ Range(calls) \cap LaterCalls = {}
       /\ "suggested_pr" \notin Range(stdout)

\* the diff command printed only a newline, which run() strips to nothing
C2_Witness ==
    /\ "git_diff" \in Range(calls)
    /\ diff_output = <<>>
    /\ exit_code = 0

\* the AI response cannot be parsed: at the envelope, at the nested text field,
\* or at the JSON inside the text field
ParseFailure(r) == ~r.json \/ ~r.hasText \/ r.text = "garbage"

\* C3: once a success-status AI response that cannot be parsed has been handled,
\* the run has ended through error(): one marked message holding the raw
\* response, status 1, nothing displayed and no PR-create invocation.
C3_ParseFailureIsMarkedError ==
    (resp.ok /\ ParseFailure(resp) /\ pc # "parse") =>
       /\ pc = "exited"
       /\ exit_code = 1
       /\ Len(stderr) = 1
       /\ stderr[1].marked
       /\ stderr[1].raw
       /\ "suggested_pr" \notin Range(stdout)
       /\ "gh_pr_create" \notin Range(calls)

\* C7: gh pr create is invoked at most once, only after the suggestion was
\* displayed, the confirmation was not answered n/no and gh is installed; its
\* arguments end in one "--label" pair per aggregated label, in order; a
\* confirmed run without gh ends with status 1 and no invocation.
C7_CreateOnceConfirmedWithLabels ==
    /\ Count(calls, "gh_pr_create") <= 1
    /\ "gh_pr_create" \in Range(calls) =>
          /\ "suggested_pr" \in Range(stdout)
          /\ ans \notin {"n", "no"}
          /\ "gh" \in installed
          /\ Len(gh_pr_args) = 13 + 2 * Len(pr_labels)
          /\ \A k \in 1..Len(pr_labels) :
                /\ gh_pr_args[13 + 2 * k - 1] = "--label"
                /\ gh_pr_args[13 + 2 * k] = pr_labels[k]
          /\ \A k \in 1..13 : gh_pr_args[k] # "--label"
    /\ "gh_pr_create" \notin Range(calls) => gh_pr_args = <<>>
    /\ (pc = "exited" /\ "suggested_pr" \in Range(stdout) /\ ans \notin {"n", "no"}
          /\ "gh" \notin installed) =>
          /\ exit_code = 1
          /\ "gh_pr_create" \notin Range(calls)

\* a PR was created with two aggregated labels
C7_Witness ==
    /\ "gh_pr_create" \in Range(calls)
    /\ Len(pr_labels) = 2
    /\ exit_code = 0

\* the selection step is over
SelectionDone == pc \in {"send", "parse", "display", "confirm", "create", "finish", "exited"}
                 /\ ("no_issues" \in Range(stdout) \/ fzf_proc.ran)

\* nothing was selected: no issue to show, or the selector failed, or it
\* returned no line that is not blank
NothingSelected ==
    \/ issues_json = <<>>
    \/ fzf_proc.returncode # 0
    \/ \A l \in Range(SplitLines(fzf_proc.stdout)) : Strip(l) = <<>>

\* C8: when nothing was selected, the reference list and the label list are
\* empty, the selector was never started for an empty issue list, nothing was
\* written to the error stream before the AI request, and the run does not end
\* before the AI request is sent.
C8_NothingSelectedProceeds ==
    /\ issues_json = <<>> /\ pc \notin {"issues", "select"} =>
          ~fzf_proc.ran /\ "fzf" \notin Range(calls)
    /\ (SelectionDone /\ NothingSelected) =>
          /\ solved_issues = <<>>
          /\ pr_labels = <<>>
          /\ (pc = "send" => exit_code = -1 /\ stderr = <<>>)
          /\ (pc # "send" => "post" \in Range(calls))

\* the selector exited non-zero with a line on stdout, and the request was sent
C8_Witness ==
    /\ fzf_proc.ran
    /\ fzf_proc.returncode # 0
    /\ fzf_proc.stdout # <<>>
    /\ "post" \in Range(calls)
    /\ solved_issues = <<>>

\* the script's positions, in program order
PcOrder == <<"start", "check_cmds", "check_repo", "branches", "diff", "prompt", "issues",
             "select", "loop", "send", "parse", "display", "confirm", "create", "finish",
             "exited">>

PcRank(p) == CHOOSE i \in 1..Len(PcOrder) : PcOrder[i] = p

\* the stages of the documented state machine, in order; "Aborted" stands for
\* every exit that is not Done (a fatal error, or the empty-diff exit)
StageOrder == <<"Start", "PreflightOK", "DiffFetched", "PromptChosen", "IssuesSelected",
                "ResponseReceived", "Displayed", "PRCreated", "Done", "Aborted">>

StageRank(st) == CHOOSE i \in 1..Len(StageOrder) : StageOrder[i] = st

\* the stage a state is in: the last stage whose work is complete
StageOf(p, out, issued) ==
    CASE p \in {"start", "check_cmds", "check_repo"} -> "Start"
      [] p \in {"branches", "diff"} -> "PreflightOK"
      [] p = "prompt" -> "DiffFetched"
      [] p \in {"issues", "select", "loop"} -> "PromptChosen"
      [] p = "send" -> "IssuesSelected"
      [] p \in {"parse", "display"} -> "ResponseReceived"
      [] p \in {"confirm", "create"} -> "Displayed"
      [] p = "finish" -> (IF "gh_pr_create" \in Range(issued) THEN "PRCreated" ELSE "Displayed")
      [] OTHER -> (IF "done" \in Range(out) THEN "Done" ELSE "Aborted")

Stage == StageOf(pc, stdout, calls)

\* the stages that may directly follow a stage
Follows(st) ==
    CASE st = "Displayed" -> {"PRCreated", "Done", "Aborted"}
      [] st \in {"Done", "Aborted"} -> {}
      [] OTHER -> {StageOrder[StageRank(st) + 1], "Aborted"}

\* one step of a run in the documented order: forward only, a statement
\* outside the two loops never run again, every external call issued once,
\* and an exit that is no abort is the one printing of "Done"
Forward ==
    /\ PcRank(pc') >= PcRank(pc)
    /\ pc' = pc => pc \in {"check_cmds", "loop"}
    /\ StageOf(pc', stdout', calls') # Stage => StageOf(pc', stdout', calls') \in Follows(Stage)
    /\ \A c \in Range(calls') : Count(calls', c) = 1
    /\ Count(stdout', "done") <= 1
    /\ (pc' = "exited" /\ stderr' = <<>> /\ "no_diff" \notin Range(stdout')) =>
          /\ StageOf(pc', stdout', calls') = "Done"
          /\ stdout'[Len(stdout')] = "done"

\* C9: a run only moves forward through Start, PreflightOK, DiffFetched,
\* PromptChosen, IssuesSelected, ResponseReceived, Displayed, (PRCreated,) Done;
\* no statement outside the two loops runs twice, no external call is issued
\* twice, every run ends, and a run that ends without aborting has printed
\* "Done" exactly once.
C9_OneDirectionalRun == [][Forward]_vars /\ <>(pc = "exited")

\* a run that went through every stage, PR creation included
C9_Witness ==
    /\ Stage = "Done"
    /\ "gh_pr_create" \in Range(calls)
    /\ line_i = 2

\* a fatal condition has been met and detected
FatalDetected ==
    \/ pc # "start" /\ ~api_key
    \/ pc \notin {"start", "check_cmds"} /\ \E i \in 1..Len(REQUIRED_CMDS) : REQUIRED_CMDS[i] \notin installed
    \/ pc \notin {"start", "check_cmds", "check_repo"} /\ ~in_repo
    \/ "post" \in Range(calls) /\ resp # NoResponse /\ ~resp.ok
    \/ resp.ok /\ ParseFailure(resp) /\ pc # "parse"
    \/ "suggested_pr" \in Range(stdout) /\ pc # "confirm" /\ ans \notin {"n", "no"}
          /\ "gh" \notin installed
    \/ \E i \in 1..Len(stderr) : stderr[i].marked

\* the exit status fits how the run ended
ExitStatusRight ==
    /\ FatalDetected => pc = "exited" /\ exit_code = 1 /\ Len(stderr) = 1
    /\ stderr # <<>> => pc = "exited" /\ exit_code = 1
    /\ exit_code = 0 =>
          /\ pc = "exited"
          /\ stderr = <<>>
          /\ stdout[Len(stdout)] \in {"done", "no_diff"}

\* C10: a detected fatal condition has ended the run with status 1 and nothing
\* runs after the exit; status 0 means the run printed "Done" with nothing on
\* the error stream, or took the empty-diff exit.
C10_FatalExitsOne == [][pc # "exited" /\ ExitStatusRight']_vars

\* gh is found missing after the suggestion was confirmed: the last fatal check
C10_Witness ==
    /\ "suggested_pr" \in Range(stdout)
    /\ stderr = <<Marked("no_gh", FALSE)>>
    /\ exit_code = 1

====
